---------------------------- MODULE Spec2Model ----------------------------
(***************************************************************************)
(* A model of wavefront_django_sdk_python: the WavefrontMiddleware request *)
(* instrumentor (middleware.py), the ApplicationTags identity              *)
(* (application_tags.py), the tagged metric registry the middleware writes *)
(* to and the reporter that flushes it.                                    *)
(*                                                                         *)
(* Requests are handled by concurrent threads.  Every access to the shared *)
(* registry is one step of a thread: update_gauge is a read step followed  *)
(* by a write step (middleware.py:338-342), every rollup of counters is a  *)
(* step of its own.                                                        *)
(***************************************************************************)
EXTENDS Integers, Sequences, FiniteSets, TLC

(***************************************************************************)
(* Bounds of the model.                                                    *)
(***************************************************************************)
\* number of requests the process serves in one behaviour
MaxRequests == 2
\* number of reporter ticks in one behaviour
MaxFlushes == 2

Requests == 1..MaxRequests

(***************************************************************************)
(* Python values.  None is a value of its own; `x or y` and `if x:` go by  *)
(* truthiness: None and the empty string are falsy.                        *)
(***************************************************************************)
None == "<None>"

Truthy(x) == x # None /\ x # ""

Or(x, y) == IF Truthy(x) THEN x ELSE y

\* seq[-1]
Last(seq) == seq[Len(seq)]

(***************************************************************************)
(* wavefront_django_sdk_python.constants, imported by middleware.py:15-17  *)
(* and application_tags.py:1-2.  The module is not among the sources; the  *)
(* values are the ones the specification gives: the prefixes `request` and *)
(* `response`, a sentinel null-tag value that is a placeholder string, and *)
(* the "server-provided" source sentinel.                                  *)
(***************************************************************************)
NULL_TAG_VAL == "none"

WAVEFRONT_PROVIDED_SOURCE == "wavefront-provided"

RESPONSE_PREFIX == "response"

REQUEST_PREFIX == "request"

REPORTER_PREFIX == "django.server."

DJANGO_COMPONENT == "django"

APPLICATION_TAG_KEY == "application"

SERVICE_TAG_KEY == "service"

CLUSTER_TAG_KEY == "cluster"

SHARD_TAG_KEY == "shard"

(***************************************************************************)
(* The inputs: the process-wide settings, the routes, the requests.        *)
(***************************************************************************)
\* values an optional identity field is configured with
OptionalNames(n) == {None, n}

\* ApplicationTags.__init__: the object holds what it was given and cannot
\* be built without application and service.
ApplicationTags(application, service, cluster, shard) ==
    [class |-> "ApplicationTags", application |-> application,
     service |-> service, cluster |-> cluster, shard |-> shard]

\* a value that is not an ApplicationTags object: None (nothing configured)
\* or the string get_conf reads from os.environ
NotTags(class) ==
    [class |-> class, application |-> None, service |-> None,
     cluster |-> None, shard |-> None]

DjangoTracing(trace_all) == [class |-> "DjangoTracing", trace_all |-> trace_all]

NotTracing(class) == [class |-> class, trace_all |-> FALSE]

\* classes of the values get_conf can return for a missing or misplaced key
OtherClasses == {"NoneType", "str"}

SettingsSpace ==
    [reporter : {"WavefrontReporter"} \cup OtherClasses,
     application_tags :
        {ApplicationTags("beachshirts", "styling", c, s) :
            c \in OptionalNames("us-west"), s \in OptionalNames("primary")}
        \cup {NotTags(k) : k \in OtherClasses},
     tracing :
        {DjangoTracing(b) : b \in BOOLEAN} \cup {NotTracing(k) : k \in OtherClasses}]

isinstance(obj, class) == obj.class = class

\* the url patterns: url_name, view_name, view function and its module
Routes ==
    {[url_name |-> "make", view_name |-> "make", func |-> "make_view",
      module |-> "shirts.views"]}

Methods == {"GET"}

Statuses == {200, 400, 599, 600}

\* str(response.status_code)
str(n) ==
    CASE n = 200 -> "200"
      [] n = 400 -> "400"
      [] n = 599 -> "599"
      [] n = 600 -> "600"

\* the value of request.resolver_match before url resolution, and the
\* outcome of resolve(path_info) for a path no pattern matches
NoMatch == [url_name |-> None, view_name |-> None, func |-> None, module |-> None]

(***************************************************************************)
(* Strings as character sequences, for the character-level operations of   *)
(* get_entity_name.  Chars spells a string, Spell reads it back.           *)
(***************************************************************************)
Chars(name) ==
    CASE name = "make" -> <<"m", "a", "k", "e">>
      [] name = "style-id" -> <<"s", "t", "y", "l", "e", "-", "i", "d">>
      [] name = "style_id" -> <<"s", "t", "y", "l", "e", "_", "i", "d">>
      [] name = "UNKNOWN" -> <<"U", "N", "K", "N", "O", "W", "N">>

KnownNames == {"make", "style-id", "style_id", "UNKNOWN"}

Spell(chars) == CHOOSE name \in KnownNames : Chars(name) = chars

\* str.replace(old, new) for one-character old and new
replace(s, old, new) == [i \in 1..Len(s) |-> IF s[i] = old THEN new ELSE s[i]]

\* the variant that removes one leading character at most
lstrip_once(s, c) == IF s # <<>> /\ Head(s) = c THEN Tail(s) ELSE s

\* str.lstrip(c) for a one-character c
RECURSIVE lstrip(_, _)
lstrip(s, c) == IF s # <<>> /\ Head(s) = c THEN lstrip(Tail(s), c) ELSE s

RECURSIVE rstrip(_, _)
rstrip(s, c) ==
    IF s # <<>> /\ s[Len(s)] = c THEN rstrip(SubSeq(s, 1, Len(s) - 1), c) ELSE s

\* middleware.py:310-311
sanitize(s) == replace(replace(replace(replace(s, "-", "_"), "/", "."), "{", "_"), "}", "_")

\* entity_name.lstrip('.').rstrip('.'), middleware.py:314
strip_dots(s) == rstrip(lstrip(s, "."), ".")

\* get_entity_name(request), middleware.py:304-314
get_entity_name(request) ==
    LET resolver_match == request.resolver_match
        entity_name ==
            IF resolver_match # NoMatch
            THEN sanitize(Chars(Or(resolver_match.url_name, resolver_match.view_name)))
            ELSE Chars("UNKNOWN")
    IN  Spell(strip_dots(entity_name))

\* what get_entity_name makes of the name of a matched route, given as
\* characters: the replacements of middleware.py:310-311, then the strips of
\* middleware.py:314
sanitized_entity_name(name) == strip_dots(sanitize(name))

\* a response object, and the None that stands for no response
HttpResponse(status_code) == [class |-> "HttpResponse", status_code |-> status_code]

NoResponse == [class |-> "NoneType", status_code |-> 0]

\* get_metric_name(entity_name, request, response=None), middleware.py:317-324:
\* the list of components that '.'.join glues
get_metric_name(entity_name, request, response) ==
    IF response.class # "NoneType"
    THEN <<RESPONSE_PREFIX, entity_name, request.method, str(response.status_code)>>
    ELSE <<REQUEST_PREFIX, entity_name, request.method>>

\* get_metric_name_without_status(entity_name, request), middleware.py:327-330
get_metric_name_without_status(entity_name, request) ==
    <<REQUEST_PREFIX, entity_name, request.method>>

\* is_error_status_code(response), middleware.py:333-334
is_error_status_code(status_code) == 400 <= status_code /\ status_code <= 599

\* get_tags_map(...), middleware.py:286-301: a dimension is in the map iff
\* the argument given for it is truthy
get_tags_map(cluster, service, shard, module_name, func_name, source) ==
    LET arg == [cluster |-> cluster, service |-> service, shard |-> shard,
                module |-> module_name, func |-> func_name, source |-> source]
        tag_key == [cluster |-> "cluster", service |-> "service", shard |-> "shard",
                    module |-> "django.resource.module",
                    func |-> "django.resource.func", source |-> "source"]
        given == {d \in DOMAIN arg : Truthy(arg[d])}
    IN  [k \in {tag_key[d] : d \in given} |->
            arg[CHOOSE d \in given : tag_key[d] = k]]

\* ApplicationTags.get_as_list(), application_tags.py:41-46
get_as_list(tags) ==
    <<<<APPLICATION_TAG_KEY, tags.application>>,
      <<SERVICE_TAG_KEY, tags.service>>,
      <<CLUSTER_TAG_KEY, Or(tags.cluster, NULL_TAG_VAL)>>,
      <<SHARD_TAG_KEY, Or(tags.shard, NULL_TAG_VAL)>>>>

\* custom_tags: None, or a list of (key, value) pairs
NoCustomTags == [class |-> "NoneType", items |-> <<>>]

CustomTags(items) == [class |-> "list", items |-> items]

\* the variant that takes only None for missing
missing_none_only(value) == value = None

\* `not application`, `not service`, application_tags.py:9 and 12
missing(value) == ~Truthy(value)

\* the name an ApplicationTags object is bound to before the call
NotConstructed ==
    [class |-> "NoneType", application |-> None, service |-> None,
     cluster |-> None, shard |-> None, custom_tags |-> NoCustomTags]

\* ApplicationTags.__init__, application_tags.py:7-19: the AttributeError it
\* raises, or the object with its five attributes
ApplicationTags_init(application, service, cluster, shard, custom_tags) ==
    IF missing(application) \/ missing(service)
    THEN [NotConstructed EXCEPT !.class = "AttributeError"]
    ELSE [class |-> "ApplicationTags", application |-> application,
          service |-> service, cluster |-> cluster, shard |-> shard,
          custom_tags |-> custom_tags]

(***************************************************************************)
(* The metric registry (TaggedRegistry, created at middleware.py:54).  A   *)
(* metric is looked up or created by kind, name and tag set.               *)
(***************************************************************************)
MetricKey(kind, name, tags) == <<kind, name, tags>>

\* a gauge that was created and never set holds NaN
NaN == [nan |-> TRUE, val |-> 0]

Num(v) == [nan |-> FALSE, val |-> v]

\* registry.gauge(key, tags): the gauge of that key, created if absent
registry_gauge(g, key) == IF key \in DOMAIN g THEN g ELSE (key :> NaN) @@ g

\* registry.counter(key, tags).inc() and delta_counter(registry, key, tags).inc():
\* the counter of that key, created at 0 if absent, plus one
counter_inc(c, key) ==
    IF key \in DOMAIN c THEN [c EXCEPT ![key] = @ + 1] ELSE (key :> 1) @@ c

\* the .inc() calls of one rollup, in program order
RECURSIVE inc_all(_, _)
inc_all(c, keys) ==
    IF keys = <<>> THEN c ELSE inc_all(counter_inc(c, Head(keys)), Tail(keys))

\* wavefront_histogram(registry, key, tags).add(value): one more sample
histogram_add(h, key) ==
    IF key \in DOMAIN h THEN [h EXCEPT ![key] = @ + 1] ELSE (key :> 1) @@ h

(***************************************************************************)
(* The state.                                                              *)
(***************************************************************************)
VARIABLES
    settings,      \* django.conf.settings / os.environ, as get_conf reads them
    mw,            \* the WavefrontMiddleware object (self)
    reporter,      \* the WavefrontReporter: prefix, registry attached, started
    heartbeaterService,  \* TRUE once the HeartbeaterService is created
    global_tracer, \* TRUE once initialize_global_tracer has run
    gauges,        \* self.reg: gauge key -> value
    counters,      \* self.reg: counter and delta counter key -> count
    histograms,    \* self.reg: histogram key -> number of samples
    req,           \* the requests: thread position and request attributes
    flushed,       \* the sink: delta counter key -> sum of the reported deltas
    flushes,       \* number of reporter ticks so far
    deltaIncs,     \* history: delta counter key -> number of .inc() calls
    interleaved,   \* history: an update_gauge ran between the read and the
                   \* write of another update_gauge of the same gauge
    ctor_args,     \* the arguments of a call of ApplicationTags(...)
    app_tags,      \* the ApplicationTags object of that call
    app_tags_read, \* what the last call of a method of that object returned
    url_name,      \* a route name, as characters
    entity_names   \* the entity names made of it, by repeated sanitization

vars ==
    <<settings, mw, reporter, heartbeaterService, global_tracer, gauges, counters,
      histograms, req, flushed, flushes, deltaIncs, interleaved, ctor_args,
      app_tags, app_tags_read, url_name, entity_names>>

NewRequest ==
    [pc |-> "idle", resolver_match |-> NoMatch, path_route |-> NoMatch,
     method |-> None, status_code |-> 0, cur_val |-> 0,
     wf_start_timestamp |-> FALSE, span |-> FALSE]

\* the object before __init__ has run: no attribute is set
NewMiddleware ==
    [pc |-> "init", constructed |-> FALSE, MIDDLEWARE_ENABLED |-> FALSE,
     reporter |-> "NoneType", application_tags |-> NotTags("NoneType"),
     tracing |-> NotTracing("NoneType"),
     APPLICATION |-> None, CLUSTER |-> None, SERVICE |-> None, SHARD |-> None]

\* the process before the middleware is constructed
MiddlewareAtStart ==
    /\ mw = NewMiddleware
    /\ reporter = [prefix |-> "", registry |-> FALSE, started |-> FALSE]
    /\ heartbeaterService = FALSE
    /\ global_tracer = FALSE
    /\ gauges = <<>>
    /\ counters = <<>>
    /\ histograms = <<>>
    /\ req = [r \in Requests |-> NewRequest]
    /\ flushed = <<>>
    /\ flushes = 0
    /\ deltaIncs = <<>>
    /\ interleaved = FALSE

\* no ApplicationTags call and no route name is under study
NoArgs ==
    [application |-> None, service |-> None, cluster |-> None, shard |-> None,
     custom_tags |-> NoCustomTags]

NoRead == [call |-> None, value |-> None, custom_tags |-> NoCustomTags, list |-> <<>>]

Init ==
    /\ ctor_args = NoArgs
    /\ app_tags = NotConstructed
    /\ app_tags_read = NoRead
    /\ url_name = <<>>
    /\ entity_names = <<>>
    /\ settings \in SettingsSpace
    /\ MiddlewareAtStart

\* get_conf(key), middleware.py:345-350: the setting, else the environment
\* variable (a string), else None
get_conf(key) == settings[key]

\* the variant that keeps a missing identity field as None
or_null_tag_skipped(value) == value

\* `<field> or NULL_TAG_VAL`, middleware.py:48-52: a missing identity field is
\* kept as the sentinel null-tag value
or_null_tag(value) == Or(value, NULL_TAG_VAL)

\* the variant that checks the reporter only
configuration_ok_reporter_only(r, t, tr) == r = "WavefrontReporter"

\* the three isinstance checks of __init__, middleware.py:38-46
configuration_ok(r, t, tr) ==
    /\ r = "WavefrontReporter"
    /\ isinstance(t, "ApplicationTags")
    /\ isinstance(tr, "DjangoTracing")

\* the position of __init__ after a step
InitGoto(pc) == [mw EXCEPT !.pc = pc]

\* WavefrontMiddleware.__init__, middleware.py:29-55: the settings are read
\* and checked; a failed check is logged and ends construction with the
\* middleware disabled, otherwise the identity is kept, the reporter gets
\* its prefix and the new registry
WavefrontMiddleware_init ==
    /\ mw.pc = "init"
    /\ LET r == get_conf("reporter")
           t == get_conf("application_tags")
           tr == get_conf("tracing")
       IN  IF configuration_ok(r, t, tr)
           THEN /\ mw' = [pc |-> "reporter_start", constructed |-> FALSE,
                          MIDDLEWARE_ENABLED |-> FALSE,
                          reporter |-> r, application_tags |-> t, tracing |-> tr,
                          APPLICATION |-> or_null_tag(t.application),
                          CLUSTER |-> or_null_tag(t.cluster),
                          SERVICE |-> or_null_tag(t.service),
                          SHARD |-> or_null_tag(t.shard)]
                /\ reporter' = [reporter EXCEPT !.prefix = REPORTER_PREFIX,
                                                !.registry = TRUE]
           ELSE /\ mw' = [mw EXCEPT !.pc = "constructed",
                                    !.constructed = TRUE,
                                    !.MIDDLEWARE_ENABLED = FALSE,
                                    !.reporter = r, !.application_tags = t,
                                    !.tracing = tr]
                /\ UNCHANGED reporter
    /\ UNCHANGED <<ctor_args, app_tags, app_tags_read, url_name, entity_names,
                   settings, heartbeaterService, global_tracer, gauges, counters,
                   histograms, req, flushed, flushes, deltaIncs, interleaved>>

\* __init__, middleware.py:56: self.reporter.start()
WavefrontMiddleware_init_reporter_start ==
    /\ mw.pc = "reporter_start"
    /\ reporter' = [reporter EXCEPT !.started = TRUE]
    /\ mw' = InitGoto("heartbeater")
    /\ UNCHANGED <<ctor_args, app_tags, app_tags_read, url_name, entity_names,
                   settings, heartbeaterService, global_tracer, gauges, counters,
                   histograms, req, flushed, flushes, deltaIncs, interleaved>>

\* __init__, middleware.py:57-62: the HeartbeaterService is created
WavefrontMiddleware_init_heartbeater ==
    /\ mw.pc = "heartbeater"
    /\ heartbeaterService' = TRUE
    /\ mw' = InitGoto("global_tracer")
    /\ UNCHANGED <<ctor_args, app_tags, app_tags_read, url_name, entity_names,
                   settings, reporter, global_tracer, gauges, counters,
                   histograms, req, flushed, flushes, deltaIncs, interleaved>>

\* __init__, middleware.py:63: initialize_global_tracer(self.tracing)
WavefrontMiddleware_init_global_tracer ==
    /\ mw.pc = "global_tracer"
    /\ global_tracer' = TRUE
    /\ mw' = InitGoto("enable")
    /\ UNCHANGED <<ctor_args, app_tags, app_tags_read, url_name, entity_names,
                   settings, reporter, heartbeaterService, gauges, counters,
                   histograms, req, flushed, flushes, deltaIncs, interleaved>>

\* __init__, middleware.py:64-69: MIDDLEWARE_ENABLED = True, and the end of
\* construction
WavefrontMiddleware_init_enable ==
    /\ mw.pc = "enable"
    /\ mw' = [mw EXCEPT !.pc = "constructed", !.constructed = TRUE,
                        !.MIDDLEWARE_ENABLED = TRUE]
    /\ UNCHANGED <<ctor_args, app_tags, app_tags_read, url_name, entity_names,
                   settings, reporter, heartbeaterService, global_tracer, gauges,
                   counters, histograms, req, flushed, flushes, deltaIncs,
                   interleaved>>

(***************************************************************************)
(* Keys and tag maps of process_view and process_response.                 *)
(***************************************************************************)
\* resolve(request.path_info).func, middleware.py:78-79 and 111-112
resolve(request) == request.path_route

\* key and tags of the per-endpoint inflight gauge, middleware.py:82-85, 129-132
endpoint_inflight(request) ==
    MetricKey("gauge",
              Append(get_metric_name(get_entity_name(request), request, NoResponse),
                     "inflight"),
              get_tags_map(None, None, None, resolve(request).module,
                           resolve(request).func, None))

\* key and tags of the total inflight gauge, middleware.py:90-94, 137-141
total_inflight ==
    MetricKey("gauge", <<"total_requests", "inflight">>,
              get_tags_map(mw.CLUSTER, mw.SERVICE, mw.SHARD, None, None, None))

\* middleware.py:148-154
complete_tags_map(module_name, func_name) ==
    get_tags_map(mw.CLUSTER, mw.SERVICE, mw.SHARD, module_name, func_name, None)

\* middleware.py:156-162
aggregated_per_shard_map(module_name, func_name) ==
    get_tags_map(mw.CLUSTER, mw.SERVICE, mw.SHARD, module_name, func_name,
                 WAVEFRONT_PROVIDED_SOURCE)

\* middleware.py:164-167
overall_aggregated_per_source_map ==
    get_tags_map(mw.CLUSTER, mw.SERVICE, mw.SHARD, None, None, None)

\* middleware.py:169-173
overall_aggregated_per_shard_map ==
    get_tags_map(mw.CLUSTER, mw.SERVICE, mw.SHARD, None, None,
                 WAVEFRONT_PROVIDED_SOURCE)

\* middleware.py:175-180
aggregated_per_service_map(module_name, func_name) ==
    get_tags_map(mw.CLUSTER, mw.SERVICE, None, module_name, func_name,
                 WAVEFRONT_PROVIDED_SOURCE)

\* middleware.py:182-185
overall_aggregated_per_service_map ==
    get_tags_map(mw.CLUSTER, mw.SERVICE, None, None, None, WAVEFRONT_PROVIDED_SOURCE)

\* the variant that leaves the source out
aggregated_per_cluster_map_no_source(module_name, func_name) ==
    get_tags_map(mw.CLUSTER, None, None, module_name, func_name, None)

\* middleware.py:187-191
aggregated_per_cluster_map(module_name, func_name) ==
    get_tags_map(mw.CLUSTER, None, None, module_name, func_name,
                 WAVEFRONT_PROVIDED_SOURCE)

\* middleware.py:193-195
overall_aggregated_per_cluster_map ==
    get_tags_map(mw.CLUSTER, None, None, None, None, WAVEFRONT_PROVIDED_SOURCE)

\* middleware.py:197-201
aggregated_per_application_map(module_name, func_name) ==
    get_tags_map(None, None, None, module_name, func_name, WAVEFRONT_PROVIDED_SOURCE)

\* middleware.py:203-204
overall_aggregated_per_application_map ==
    get_tags_map(None, None, None, None, None, WAVEFRONT_PROVIDED_SOURCE)

\* middleware.py:145-146
response_metric_key(request) ==
    get_metric_name(get_entity_name(request), request,
                    HttpResponse(request.status_code))

\* `if cond: <one .inc()>`: the key, or nothing
When(cond, key) == IF cond THEN <<key>> ELSE <<>>

\* the .inc() calls of the per-endpoint rollup, middleware.py:212-227
endpoint_rollup(request) ==
    LET key == response_metric_key(request)
        m == resolve(request).module
        f == resolve(request).func
    IN  <<MetricKey("counter", Append(key, "cumulative"), complete_tags_map(m, f))>>
        \o When(Truthy(mw.application_tags.shard),
                MetricKey("delta_counter", Append(key, "aggregated_per_shard"),
                          aggregated_per_shard_map(m, f)))
        \o <<MetricKey("delta_counter", Append(key, "aggregated_per_service"),
                       aggregated_per_service_map(m, f))>>
        \o When(Truthy(mw.application_tags.cluster),
                MetricKey("delta_counter", Append(key, "aggregated_per_cluster"),
                          aggregated_per_cluster_map(m, f)))
        \o <<MetricKey("delta_counter", Append(key, "aggregated_per_application"),
                       aggregated_per_application_map(m, f))>>

\* the .inc() calls of the error rollup, middleware.py:234-252
errors_rollup(request) ==
    LET m == resolve(request).module
        f == resolve(request).func
    IN  IF is_error_status_code(request.status_code)
        THEN <<MetricKey("counter",
                         get_metric_name_without_status(get_entity_name(request), request),
                         complete_tags_map(m, f)),
               MetricKey("counter", <<"response", "errors">>, complete_tags_map(m, f)),
               MetricKey("counter", <<"response", "errors", "aggregated_per_source">>,
                         overall_aggregated_per_source_map)>>
             \o When(Truthy(mw.application_tags.shard),
                     MetricKey("delta_counter",
                               <<"response", "errors", "aggregated_per_shard">>,
                               overall_aggregated_per_shard_map))
             \o <<MetricKey("delta_counter",
                            <<"response", "errors", "aggregated_per_service">>,
                            overall_aggregated_per_service_map)>>
             \o When(Truthy(mw.application_tags.cluster),
                     MetricKey("delta_counter",
                               <<"response", "errors", "aggregated_per_cluster">>,
                               overall_aggregated_per_cluster_map))
             \o <<MetricKey("delta_counter",
                            <<"response", "errors", "aggregated_per_application">>,
                            overall_aggregated_per_application_map)>>
        ELSE <<>>

\* the variant whose two presence checks are swapped
completed_rollup_swapped ==
    <<MetricKey("counter", <<"response", "completed", "aggregated_per_source">>,
                overall_aggregated_per_source_map)>>
    \o (IF mw.CLUSTER # NULL_TAG_VAL
        THEN <<MetricKey("delta_counter",
                         <<"response", "completed", "aggregated_per_shard">>,
                         overall_aggregated_per_shard_map),
               MetricKey("counter",
                         <<"response", "completed", "aggregated_per_service">>,
                         overall_aggregated_per_service_map)>>
        ELSE <<>>)
    \o (IF mw.SHARD # NULL_TAG_VAL
        THEN <<MetricKey("delta_counter",
                         <<"response", "completed", "aggregated_per_cluster">>,
                         overall_aggregated_per_cluster_map),
               MetricKey("counter",
                         <<"response", "completed", "aggregated_per_application">>,
                         overall_aggregated_per_application_map)>>
        ELSE <<>>)

\* the variant that counts per service and per application on every call
completed_rollup_uncoupled ==
    <<MetricKey("counter", <<"response", "completed", "aggregated_per_source">>,
                overall_aggregated_per_source_map),
      MetricKey("counter", <<"response", "completed", "aggregated_per_service">>,
                overall_aggregated_per_service_map),
      MetricKey("counter", <<"response", "completed", "aggregated_per_application">>,
                overall_aggregated_per_application_map)>>
    \o When(mw.SHARD # NULL_TAG_VAL,
            MetricKey("delta_counter",
                      <<"response", "completed", "aggregated_per_shard">>,
                      overall_aggregated_per_shard_map))
    \o When(mw.CLUSTER # NULL_TAG_VAL,
            MetricKey("delta_counter",
                      <<"response", "completed", "aggregated_per_cluster">>,
                      overall_aggregated_per_cluster_map))

\* the .inc() calls of the completion rollup, middleware.py:259-272
completed_rollup ==
    <<MetricKey("counter", <<"response", "completed", "aggregated_per_source">>,
                overall_aggregated_per_source_map)>>
    \o (IF mw.SHARD # NULL_TAG_VAL
        THEN <<MetricKey("delta_counter",
                         <<"response", "completed", "aggregated_per_shard">>,
                         overall_aggregated_per_shard_map),
               MetricKey("counter",
                         <<"response", "completed", "aggregated_per_service">>,
                         overall_aggregated_per_service_map)>>
        ELSE <<>>)
    \o (IF mw.CLUSTER # NULL_TAG_VAL
        THEN <<MetricKey("delta_counter",
                         <<"response", "completed", "aggregated_per_cluster">>,
                         overall_aggregated_per_cluster_map),
               MetricKey("counter",
                         <<"response", "completed", "aggregated_per_application">>,
                         overall_aggregated_per_application_map)>>
        ELSE <<>>)

\* the keys of the two histograms, middleware.py:279-282
latency_key(request) ==
    LET m == resolve(request).module
        f == resolve(request).func
    IN  MetricKey("histogram", Append(response_metric_key(request), "latency"),
                  complete_tags_map(m, f))

cpu_ns_key(request) ==
    LET m == resolve(request).module
        f == resolve(request).func
    IN  MetricKey("histogram", Append(response_metric_key(request), "cpu_ns"),
                  complete_tags_map(m, f))

(***************************************************************************)
(* update_gauge, middleware.py:337-342, is two accesses to the registry:   *)
(* the read (gauge looked up or created, value read, NaN taken as 0) and   *)
(* the write of cur_val + val.                                             *)
(***************************************************************************)
gauge_value(g, key) == IF g[key].nan THEN 0 ELSE g[key].val

update_gauge_write(g, key, cur_val, val) == [g EXCEPT ![key] = Num(cur_val + val)]

\* the position of a thread after a step
Goto(r, pc) == [req EXCEPT ![r].pc = pc]

\* the read half of update_gauge by thread r, which then stands at pc
GaugeRead(r, key, pc, request) ==
    /\ gauges' = registry_gauge(gauges, key)
    /\ req' = [req EXCEPT ![r] = [request EXCEPT !.cur_val = gauge_value(gauges', key),
                                                 !.pc = pc]]

\* the gauge a thread has read and not yet written, by its position
pending_gauges(request) ==
    CASE request.pc \in {"pv_endpoint_write", "pr_endpoint_write"} ->
            {endpoint_inflight(request)}
      [] request.pc \in {"pv_total_write", "pr_total_write"} -> {total_inflight}
      [] OTHER -> {}

\* history of a write by thread r: it falls between the read and the write
\* of another thread's update_gauge of the same gauge
interleaves(r, key) == \E q \in Requests \ {r} : key \in pending_gauges(req[q])

\* the write half of update_gauge by thread r, which then stands at pc
GaugeWrite(r, key, val, pc) ==
    /\ gauges' = update_gauge_write(gauges, key, req[r].cur_val, val)
    /\ req' = [req EXCEPT ![r].cur_val = 0, ![r].pc = pc]
    /\ interleaved' = (interleaved \/ interleaves(r, key))

(***************************************************************************)
(* The framework hands a request to the middleware: url resolution has set *)
(* request.resolver_match and process_view is due, or a response was made  *)
(* before url resolution (resolver_match is None), for a path that         *)
(* resolves to a route or to none.                                         *)
(***************************************************************************)
Arrive(r) ==
    /\ mw.constructed
    /\ req[r].pc = "idle"
    /\ IF r = 1 THEN TRUE ELSE req[r - 1].pc # "idle"
    /\ \E route \in Routes \cup {NoMatch}, resolved \in BOOLEAN, method \in Methods :
          /\ resolved => route # NoMatch
          /\ req' = [req EXCEPT ![r] =
                        [NewRequest EXCEPT !.pc = "arrived",
                                           !.path_route = route,
                                           !.resolver_match =
                                                IF resolved THEN route ELSE NoMatch,
                                           !.method = method]]
    /\ UNCHANGED <<ctor_args, app_tags, app_tags_read, url_name, entity_names,
                   settings, mw, reporter, heartbeaterService, global_tracer, gauges,
                   counters, histograms, flushed, flushes, deltaIncs, interleaved>>

\* the variant without the early return
instruments_always(m) == TRUE

\* `if not self.MIDDLEWARE_ENABLED: return`, middleware.py:72-73 and 108-109:
\* whether a call goes on to instrument the request
instruments(m) == m.MIDDLEWARE_ENABLED

\* process_view, middleware.py:71-87 up to the read of the endpoint gauge
process_view_enter(r) ==
    /\ req[r].pc = "arrived"
    /\ req[r].resolver_match # NoMatch
    /\ IF ~instruments(mw)
       THEN /\ req' = Goto(r, "view")
            /\ UNCHANGED gauges
       ELSE LET request == [req[r] EXCEPT !.wf_start_timestamp = TRUE]
            IN  GaugeRead(r, endpoint_inflight(request), "pv_endpoint_write", request)
    /\ UNCHANGED <<ctor_args, app_tags, app_tags_read, url_name, entity_names,
                   settings, mw, reporter, heartbeaterService, global_tracer,
                   counters, histograms, flushed, flushes, deltaIncs, interleaved>>

\* process_view, middleware.py:80-87: the write of the endpoint gauge
process_view_endpoint_write(r) ==
    /\ req[r].pc = "pv_endpoint_write"
    /\ GaugeWrite(r, endpoint_inflight(req[r]), 1, "pv_total_read")
    /\ UNCHANGED <<ctor_args, app_tags, app_tags_read, url_name, entity_names,
                   settings, mw, reporter, heartbeaterService, global_tracer,
                   counters, histograms, flushed, flushes, deltaIncs>>

\* process_view, middleware.py:88-96: the read of the total gauge
process_view_total_read(r) ==
    /\ req[r].pc = "pv_total_read"
    /\ GaugeRead(r, total_inflight, "pv_total_write", req[r])
    /\ UNCHANGED <<ctor_args, app_tags, app_tags_read, url_name, entity_names,
                   settings, mw, reporter, heartbeaterService, global_tracer,
                   counters, histograms, flushed, flushes, deltaIncs, interleaved>>

\* self.tracing._apply_tracing, middleware.py:97-105: a span is attached to
\* the request iff a tracing object is set and it traces all requests
apply_tracing(tracing) == tracing.class # "NoneType" /\ tracing.trace_all

\* process_view, middleware.py:88-105: the write of the total gauge, then
\* the tracing
process_view_total_write(r) ==
    /\ req[r].pc = "pv_total_write"
    /\ gauges' = update_gauge_write(gauges, total_inflight, req[r].cur_val, 1)
    /\ interleaved' = (interleaved \/ interleaves(r, total_inflight))
    /\ req' = [req EXCEPT ![r].pc = "view", ![r].cur_val = 0,
                          ![r].span = apply_tracing(mw.tracing)]
    /\ UNCHANGED <<ctor_args, app_tags, app_tags_read, url_name, entity_names,
                   settings, mw, reporter, heartbeaterService, global_tracer,
                   counters, histograms, flushed, flushes, deltaIncs>>

\* process_response, middleware.py:110-125, raises before any metric is
\* touched: resolve() raises Resolver404 for a path without a route, and
\* self.tracing.get_span(request) is None when no span was attached to the
\* request, so that span.set_tag raises AttributeError
process_response_raises(request, tracing) ==
    \/ resolve(request) = NoMatch
    \/ tracing.class # "NoneType" /\ ~request.span

\* process_response, middleware.py:107-134 up to the read of the endpoint
\* gauge, for the response the framework made
process_response_enter(r) ==
    /\ \/ req[r].pc = "view"
       \/ req[r].pc = "arrived" /\ req[r].resolver_match = NoMatch
    /\ \E status_code \in Statuses :
          LET request == [req[r] EXCEPT !.status_code = status_code, !.span = FALSE]
          IN  IF ~instruments(mw)
              THEN /\ req' = [req EXCEPT ![r] = [request EXCEPT !.pc = "done"]]
                   /\ UNCHANGED gauges
              ELSE IF process_response_raises(req[r], mw.tracing)
              THEN /\ req' = [req EXCEPT ![r] = [request EXCEPT !.pc = "raised"]]
                   /\ UNCHANGED gauges
              ELSE GaugeRead(r, endpoint_inflight(request), "pr_endpoint_write",
                             request)
    /\ UNCHANGED <<ctor_args, app_tags, app_tags_read, url_name, entity_names,
                   settings, mw, reporter, heartbeaterService, global_tracer,
                   counters, histograms, flushed, flushes, deltaIncs, interleaved>>

\* process_response, middleware.py:127-134: the write of the endpoint gauge
process_response_endpoint_write(r) ==
    /\ req[r].pc = "pr_endpoint_write"
    /\ GaugeWrite(r, endpoint_inflight(req[r]), -1, "pr_total_read")
    /\ UNCHANGED <<ctor_args, app_tags, app_tags_read, url_name, entity_names,
                   settings, mw, reporter, heartbeaterService, global_tracer,
                   counters, histograms, flushed, flushes, deltaIncs>>

\* process_response, middleware.py:135-143: the read of the total gauge
process_response_total_read(r) ==
    /\ req[r].pc = "pr_total_read"
    /\ GaugeRead(r, total_inflight, "pr_total_write", req[r])
    /\ UNCHANGED <<ctor_args, app_tags, app_tags_read, url_name, entity_names,
                   settings, mw, reporter, heartbeaterService, global_tracer,
                   counters, histograms, flushed, flushes, deltaIncs, interleaved>>

\* process_response, middleware.py:135-143: the write of the total gauge
process_response_total_write(r) ==
    /\ req[r].pc = "pr_total_write"
    /\ GaugeWrite(r, total_inflight, -1, "pr_endpoint_rollup")
    /\ UNCHANGED <<ctor_args, app_tags, app_tags_read, url_name, entity_names,
                   settings, mw, reporter, heartbeaterService, global_tracer,
                   counters, histograms, flushed, flushes, deltaIncs>>

\* the history of a rollup: every .inc() of a delta counter is counted
Tally(incs, keys) ==
    LET deltas == {keys[i] : i \in {j \in DOMAIN keys : keys[j][1] = "delta_counter"}}
        times(k) == Cardinality({i \in DOMAIN keys : keys[i] = k})
    IN  [k \in DOMAIN incs \cup deltas |->
            (IF k \in DOMAIN incs THEN incs[k] ELSE 0) + times(k)]

\* a rollup by thread r, which then stands at pc
Rollup(r, keys, pc) ==
    /\ counters' = inc_all(counters, keys)
    /\ deltaIncs' = Tally(deltaIncs, keys)
    /\ req' = Goto(r, pc)
    /\ UNCHANGED <<ctor_args, app_tags, app_tags_read, url_name, entity_names,
                   settings, mw, reporter, heartbeaterService, global_tracer,
                   gauges, histograms, flushed, flushes, interleaved>>

\* process_response, middleware.py:145-227: the per-endpoint rollup
process_response_endpoint_rollup(r) ==
    /\ req[r].pc = "pr_endpoint_rollup"
    /\ Rollup(r, endpoint_rollup(req[r]), "pr_errors_rollup")

\* process_response, middleware.py:234-252: the error rollup
process_response_errors_rollup(r) ==
    /\ req[r].pc = "pr_errors_rollup"
    /\ Rollup(r, errors_rollup(req[r]), "pr_completed_rollup")

\* process_response, middleware.py:259-272: the completion rollup
process_response_completed_rollup(r) ==
    /\ req[r].pc = "pr_completed_rollup"
    /\ Rollup(r, completed_rollup, "pr_histograms")

\* process_response, middleware.py:276-283: the two histogram samples, if
\* the request carries a start timestamp, and the return of the response
process_response_histograms(r) ==
    /\ req[r].pc = "pr_histograms"
    /\ histograms' =
          IF req[r].wf_start_timestamp
          THEN histogram_add(histogram_add(histograms, latency_key(req[r])),
                             cpu_ns_key(req[r]))
          ELSE histograms
    /\ req' = Goto(r, "done")
    /\ UNCHANGED <<ctor_args, app_tags, app_tags_read, url_name, entity_names,
                   settings, mw, reporter, heartbeaterService, global_tracer,
                   gauges, counters, flushed, flushes, deltaIncs, interleaved>>

(***************************************************************************)
(* A request is aborted while its view runs (the client went away, the     *)
(* worker was stopped): process_view has returned and the framework never  *)
(* calls process_response for it.  No code of the middleware runs.         *)
(***************************************************************************)
Abort(r) ==
    /\ req[r].pc = "view"
    /\ req' = Goto(r, "aborted")
    /\ UNCHANGED <<ctor_args, app_tags, app_tags_read, url_name, entity_names,
                   settings, mw, reporter, heartbeaterService, global_tracer,
                   gauges, counters, histograms, flushed, flushes, deltaIncs,
                   interleaved>>

(***************************************************************************)
(* The reporter loop, started at middleware.py:56, ticks independently of  *)
(* the requests.  A tick reports every metric of the registry; a delta     *)
(* counter reports the count it accumulated and is decremented by what was *)
(* reported, a cumulative counter reports its running total and keeps it.  *)
(***************************************************************************)
IsDelta(key) == key[1] = "delta_counter"

\* the variant that reports a delta counter and keeps its count
after_report_kept(c, key) == c[key]

\* what a counter holds after its value was reported
after_report(c, key) == IF IsDelta(key) THEN 0 ELSE c[key]

report_now ==
    /\ reporter.started
    /\ flushes < MaxFlushes
    /\ flushes' = flushes + 1
    /\ flushed' = [k \in DOMAIN flushed \cup {d \in DOMAIN counters : IsDelta(d)} |->
                      (IF k \in DOMAIN flushed THEN flushed[k] ELSE 0)
                      + (IF k \in DOMAIN counters THEN counters[k] ELSE 0)]
    /\ counters' = [k \in DOMAIN counters |-> after_report(counters, k)]
    /\ UNCHANGED <<ctor_args, app_tags, app_tags_read, url_name, entity_names,
                   settings, mw, reporter, heartbeaterService, global_tracer,
                   gauges, histograms, req, deltaIncs, interleaved>>

Next ==
    \/ WavefrontMiddleware_init
    \/ WavefrontMiddleware_init_reporter_start
    \/ WavefrontMiddleware_init_heartbeater
    \/ WavefrontMiddleware_init_global_tracer
    \/ WavefrontMiddleware_init_enable
    \/ \E r \in Requests : Arrive(r)
    \/ \E r \in Requests : process_view_enter(r)
    \/ \E r \in Requests : process_view_endpoint_write(r)
    \/ \E r \in Requests : process_view_total_read(r)
    \/ \E r \in Requests : process_view_total_write(r)
    \/ \E r \in Requests : process_response_enter(r)
    \/ \E r \in Requests : process_response_endpoint_write(r)
    \/ \E r \in Requests : process_response_total_read(r)
    \/ \E r \in Requests : process_response_total_write(r)
    \/ \E r \in Requests : process_response_endpoint_rollup(r)
    \/ \E r \in Requests : process_response_errors_rollup(r)
    \/ \E r \in Requests : process_response_completed_rollup(r)
    \/ \E r \in Requests : process_response_histograms(r)
    \/ \E r \in Requests : Abort(r)
    \/ report_now

Spec == Init /\ [][Next]_vars

(***************************************************************************)
(* ApplicationTags on its own (application_tags.py): one call of the       *)
(* constructor with arguments of every kind, then the methods of the       *)
(* object in any order.  No middleware is configured.                      *)
(***************************************************************************)
\* the values given for an identity field: missing, empty, a name
TagNames(n) == {None, "", n}

CtorArgsSpace ==
    [application : TagNames("beachshirts"), service : TagNames("styling"),
     cluster : TagNames("us-west"), shard : OptionalNames("primary"),
     custom_tags : {NoCustomTags, CustomTags(<<<<"env", "prod">>>>)}]

NothingConfigured ==
    [reporter |-> "NoneType", application_tags |-> NotTags("NoneType"),
     tracing |-> NotTracing("NoneType")]

middleware_vars ==
    <<settings, mw, reporter, heartbeaterService, global_tracer, gauges, counters,
      histograms, req, flushed, flushes, deltaIncs, interleaved>>

InitTags ==
    /\ ctor_args \in CtorArgsSpace
    /\ app_tags = NotConstructed
    /\ app_tags_read = NoRead
    /\ url_name = <<>>
    /\ entity_names = <<>>
    /\ settings = NothingConfigured
    /\ MiddlewareAtStart

\* ApplicationTags(application, service, cluster, shard, custom_tags)
ApplicationTags_call ==
    /\ app_tags.class = "NoneType"
    /\ app_tags' = ApplicationTags_init(ctor_args.application, ctor_args.service,
                                        ctor_args.cluster, ctor_args.shard,
                                        ctor_args.custom_tags)
    /\ UNCHANGED <<ctor_args, app_tags_read, url_name, entity_names, middleware_vars>>

Properties == {"application", "service", "cluster", "shard"}

\* the properties application, service, cluster and shard,
\* application_tags.py:21-35: each returns its attribute
property_get(p) ==
    /\ app_tags.class = "ApplicationTags"
    /\ app_tags_read' = [NoRead EXCEPT !.call = p, !.value = app_tags[p]]
    /\ UNCHANGED <<ctor_args, app_tags, url_name, entity_names, middleware_vars>>

\* the property custom_tags, application_tags.py:37-39
custom_tags_get ==
    /\ app_tags.class = "ApplicationTags"
    /\ app_tags_read' = [NoRead EXCEPT !.call = "custom_tags",
                                       !.custom_tags = app_tags.custom_tags]
    /\ UNCHANGED <<ctor_args, app_tags, url_name, entity_names, middleware_vars>>

\* get_as_list(), application_tags.py:41-46
get_as_list_call ==
    /\ app_tags.class = "ApplicationTags"
    /\ app_tags_read' = [NoRead EXCEPT !.call = "get_as_list",
                                       !.list = get_as_list(app_tags)]
    /\ UNCHANGED <<ctor_args, app_tags, url_name, entity_names, middleware_vars>>

NextTags ==
    \/ ApplicationTags_call
    \/ \E p \in Properties : property_get(p)
    \/ custom_tags_get
    \/ get_as_list_call

SpecTags == InitTags /\ [][NextTags]_vars

(***************************************************************************)
(* The sanitization of get_entity_name on its own: a route name over the   *)
(* alphabet of the characters it treats, sanitized, and the outcome        *)
(* sanitized again.                                                        *)
(***************************************************************************)
\* length of the longest route name
MaxNameLen == 3
\* number of times the sanitization is applied in a row
MaxApplications == 2

Alphabet == {"a", "_", "-", "/", "{", "}", "."}

RouteNames == UNION {[1..n -> Alphabet] : n \in 0..MaxNameLen}

InitNames ==
    /\ url_name \in RouteNames
    /\ entity_names = <<>>
    /\ ctor_args = NoArgs
    /\ app_tags = NotConstructed
    /\ app_tags_read = NoRead
    /\ settings = NothingConfigured
    /\ MiddlewareAtStart

\* the sanitization applied to the route name, then to its own outcome
sanitize_again ==
    /\ Len(entity_names) < MaxApplications
    /\ entity_names' =
          Append(entity_names,
                 sanitized_entity_name(IF entity_names = <<>> THEN url_name
                                       ELSE Last(entity_names)))
    /\ UNCHANGED <<url_name, ctor_args, app_tags, app_tags_read, middleware_vars>>

NextNames == sanitize_again

SpecNames == InitNames /\ [][NextNames]_vars

(***************************************************************************)
(* Vocabulary of the properties.                                           *)
(***************************************************************************)
\* STARTED has fired for the request: process_view captured its timestamp
Started(r) == req[r].wf_start_timestamp

\* COMPLETED has fired for the request: process_response was called and has
\* ended, by returning the response or by raising
Completed(r) == req[r].pc \in {"done", "raised"}

\* process_response has returned the response
Returned(r) == req[r].pc = "done"

\* the status codes the specification classifies as errors
IsErrorStatus(status_code) == status_code \in 400..599

RECURSIVE SumOver(_, _)
SumOver(f, keys) ==
    IF keys = {} THEN 0
    ELSE LET k == CHOOSE x \in keys : TRUE IN f[k] + SumOver(f, keys \ {k})

\* the metrics of a registry map that have the given kind and name
Named(f, kind, name) == {k \in DOMAIN f : k[1] = kind /\ k[2] = name}

\* the count held under a kind and name, over all tag sets
NamedTotal(f, kind, name) == SumOver(f, Named(f, kind, name))

\* the entity name the specification gives a request
EntityOf(r) ==
    IF req[r].resolver_match = NoMatch THEN "UNKNOWN" ELSE req[r].resolver_match.url_name

\* C1: on an enabled engine, once COMPLETED has fired for every STARTED
\* request, every inflight gauge holds exactly 0
C1_InflightNetZero ==
    (/\ mw.MIDDLEWARE_ENABLED
     /\ \A r \in Requests : req[r].pc = "idle" \/ (Started(r) /\ Completed(r)))
    => \A k \in DOMAIN gauges : ~gauges[k].nan /\ gauges[k].val = 0

\* the race alone: the same with every process_response having returned
InflightNetZeroWhenReturned ==
    (/\ mw.MIDDLEWARE_ENABLED
     /\ \A r \in Requests : req[r].pc = "idle" \/ (Started(r) /\ Returned(r)))
    => \A k \in DOMAIN gauges : ~gauges[k].nan /\ gauges[k].val = 0

\* the requests for which process_response is past its error rollup
PastErrorsRollup(r) ==
    req[r].pc \in {"pr_completed_rollup", "pr_histograms", "done", "raised"}

\* C2: the error-path counters are incremented by process_response iff the
\* status of the request is in 400..599: response.errors.aggregated_per_source
\* counts exactly the STARTED requests that COMPLETED with an error status
C2_ErrorCountersIffError ==
    mw.MIDDLEWARE_ENABLED =>
        NamedTotal(counters, "counter", <<"response", "errors", "aggregated_per_source">>)
        = Cardinality({r \in Requests :
                          /\ Started(r)
                          /\ PastErrorsRollup(r)
                          /\ IsErrorStatus(req[r].status_code)})

\* the same over the requests whose process_response did not raise
ErrorCountersIffErrorWhenReturned ==
    mw.MIDDLEWARE_ENABLED =>
        NamedTotal(counters, "counter", <<"response", "errors", "aggregated_per_source">>)
        = Cardinality({r \in Requests :
                          /\ PastErrorsRollup(r) /\ req[r].pc # "raised"
                          /\ IsErrorStatus(req[r].status_code)})

\* the requests for which process_response is past its per-endpoint rollup
PastEndpointRollup(r) ==
    req[r].pc \in {"pr_errors_rollup", "pr_completed_rollup", "pr_histograms", "done",
                   "raised"}

\* C4: every COMPLETED that follows a STARTED increments by one the counter
\* response.<entity>.<method>.<status>.cumulative and the delta counters
\* ...aggregated_per_service and ...aggregated_per_application, whatever the
\* status, the shard and cluster and the tracing configuration
C4_CompletionAlwaysCounted ==
    mw.MIDDLEWARE_ENABLED =>
        \A r \in Requests :
            (Started(r) /\ PastEndpointRollup(r)) =>
                LET key == <<"response", EntityOf(r), req[r].method,
                             str(req[r].status_code)>>
                    same == {q \in Requests :
                                /\ Started(q) /\ PastEndpointRollup(q)
                                /\ EntityOf(q) = EntityOf(r)
                                /\ req[q].method = req[r].method
                                /\ req[q].status_code = req[r].status_code}
                IN  /\ NamedTotal(counters, "counter", Append(key, "cumulative"))
                       = Cardinality(same)
                    /\ NamedTotal(deltaIncs, "delta_counter",
                                  Append(key, "aggregated_per_service"))
                       = Cardinality(same)
                    /\ NamedTotal(deltaIncs, "delta_counter",
                                  Append(key, "aggregated_per_application"))
                       = Cardinality(same)

\* C5: after process_response has returned for a request with an error
\* status, the counter request.<entity>.<method>.errors has been incremented
C5_ErrorsCounterNamed ==
    \A r \in Requests :
        (mw.MIDDLEWARE_ENABLED /\ Returned(r) /\ IsErrorStatus(req[r].status_code)) =>
            NamedTotal(counters, "counter",
                       <<"request", EntityOf(r), req[r].method, "errors">>) >= 1

\* C7: neither process_view nor process_response ever raises
C7_NeverRaises == \A r \in Requests : req[r].pc # "raised"

\* the identity the process was configured with
ShardConfigured == Truthy(settings.application_tags.shard)

ClusterConfigured == Truthy(settings.application_tags.cluster)

\* by how much a step changes the count of the delta counter of a name
DeltaStep(name) ==
    NamedTotal(counters', "delta_counter", name) - NamedTotal(counters, "delta_counter", name)

\* the step of thread r from one position of process_response to the next
StepOf(r, from, to) == req[r].pc = from /\ req'[r].pc = to

\* the gating of one rollup: its per-shard counter is incremented iff the
\* shard is configured, its per-cluster counter iff the cluster is
RollupGated(prefix) ==
    /\ DeltaStep(Append(prefix, "aggregated_per_shard")) = IF ShardConfigured THEN 1 ELSE 0
    /\ DeltaStep(Append(prefix, "aggregated_per_cluster"))
       = IF ClusterConfigured THEN 1 ELSE 0

\* no counter of a scope whose identity field is absent exists
AbsentScopesNeverCreated ==
    \A k \in DOMAIN counters :
        /\ Last(k[2]) = "aggregated_per_shard" => ShardConfigured
        /\ Last(k[2]) = "aggregated_per_cluster" => ClusterConfigured

\* C3: in each of the three rollups of process_response (per-endpoint,
\* response.errors when the status is an error, response.completed) the
\* aggregated_per_shard delta counter is incremented iff the shard is
\* configured and the aggregated_per_cluster delta counter iff the cluster
\* is; a counter of an absent field is never created
C3_ShardClusterGating ==
    /\ []AbsentScopesNeverCreated
    /\ [][\A r \in Requests :
            /\ StepOf(r, "pr_endpoint_rollup", "pr_errors_rollup") =>
                  RollupGated(<<"response", EntityOf(r), req[r].method,
                                str(req[r].status_code)>>)
            /\ (/\ StepOf(r, "pr_errors_rollup", "pr_completed_rollup")
                /\ IsErrorStatus(req[r].status_code)) =>
                  RollupGated(<<"response", "errors">>)
            /\ StepOf(r, "pr_completed_rollup", "pr_histograms") =>
                  RollupGated(<<"response", "completed">>)]_vars

\* a request with an error status went through the three rollups with the
\* shard configured and the cluster absent
C3_Witness ==
    /\ ShardConfigured /\ ~ClusterConfigured
    /\ \E r \in Requests : Returned(r) /\ IsErrorStatus(req[r].status_code)
    /\ NamedTotal(deltaIncs, "delta_counter",
                  <<"response", "completed", "aggregated_per_shard">>) >= 1
    /\ NamedTotal(deltaIncs, "delta_counter",
                  <<"response", "errors", "aggregated_per_shard">>) >= 1

\* a reporter or application tags that are missing or of the wrong kind
RequiredConfigurationBad ==
    \/ settings.reporter # "WavefrontReporter"
    \/ settings.application_tags.class # "ApplicationTags"

\* C6: when the reporter or the application tags are missing or of the wrong
\* kind, the middleware ends construction disabled and stays disabled; no
\* metric is ever created or changed, no call raises, the reporter is not
\* started
C6_DisabledIsSticky ==
    (mw.constructed /\ RequiredConfigurationBad) =>
        /\ ~mw.MIDDLEWARE_ENABLED
        /\ gauges = <<>> /\ counters = <<>> /\ histograms = <<>>
        /\ ~reporter.started
        /\ \A r \in Requests : ~Started(r) /\ req[r].pc # "raised"

\* a disabled middleware has seen one request through process_view and
\* process_response and another through process_view
C6_Witness ==
    /\ mw.constructed /\ RequiredConfigurationBad
    /\ \E r, q \in Requests :
          /\ Returned(r) /\ req[r].resolver_match # NoMatch
          /\ req[q].pc = "view"

Reported(k) == IF k \in DOMAIN flushed THEN flushed[k] ELSE 0

\* C8: for every delta counter, whatever the interleaving of increments and
\* reporter ticks, the deltas reported so far plus the count not yet reported
\* equal the number of increments, and a tick reports all that was
\* incremented since the tick before
C8_DeltaReportedOnce ==
    /\ [](\A k \in DOMAIN deltaIncs : Reported(k) + counters[k] = deltaIncs[k])
    /\ [][flushes' = flushes + 1 =>
            \A k \in DOMAIN deltaIncs :
                LET reported_by_tick == flushed'[k] - Reported(k)
                    incremented_since == deltaIncs[k] - Reported(k)
                IN  reported_by_tick = incremented_since /\ counters'[k] = 0]_vars

\* a delta counter was reported by two ticks, an increment between them and
\* one after them
C8_Witness ==
    /\ flushes = 2
    /\ \E k \in DOMAIN deltaIncs :
          /\ deltaIncs[k] = 2
          /\ Reported(k) = 1
          /\ counters[k] = 1

\* C9: after N STARTED requests with the same entity, method and status have
\* COMPLETED, concurrently, response.<entity>.<method>.<status>.cumulative
\* is one metric and holds N
C9_NoIncrementLost ==
    \A status_code \in Statuses :
        (/\ mw.MIDDLEWARE_ENABLED
         /\ \A r \in Requests :
               /\ Started(r) /\ Completed(r)
               /\ req[r].status_code = status_code
               /\ EntityOf(r) = "make" /\ req[r].method = "GET") =>
            LET name == <<"response", "make", "GET", str(status_code), "cumulative">>
            IN  /\ Cardinality(Named(counters, "counter", name)) = 1
                /\ NamedTotal(counters, "counter", name) = Cardinality(Requests)

\* the same once every process_response has returned
NoIncrementLostWhenReturned ==
    \A status_code \in Statuses :
        (/\ mw.MIDDLEWARE_ENABLED
         /\ \A r \in Requests :
               /\ Started(r) /\ Returned(r)
               /\ req[r].status_code = status_code
               /\ EntityOf(r) = "make" /\ req[r].method = "GET") =>
            LET name == <<"response", "make", "GET", str(status_code), "cumulative">>
            IN  /\ Cardinality(Named(counters, "counter", name)) = 1
                /\ NamedTotal(counters, "counter", name) = Cardinality(Requests)

\* every metric of the registry
AllKeys == DOMAIN gauges \cup DOMAIN counters \cup DOMAIN histograms

TagValues(tags) == {tags[k] : k \in DOMAIN tags}

\* C10: when the identity has no cluster (no shard), no tag set of a gauge,
\* counter or histogram has a cluster (shard) key, and the sentinel null-tag
\* value is the value of no tag
C10_AbsentDimensionSkipped ==
    \A k \in AllKeys :
        /\ ~ClusterConfigured => "cluster" \notin DOMAIN k[3]
        /\ ~ShardConfigured => "shard" \notin DOMAIN k[3]
        /\ NULL_TAG_VAL \notin TagValues(k[3])

\* the metrics whose tag set the code builds from cluster and shard
BuiltFromClusterAndShard(k) ==
    \/ k[1] = "gauge" /\ k[2] = <<"total_requests", "inflight">>
    \/ k[1] = "counter" /\ Last(k[2]) = "cumulative"
    \/ k[1] = "histogram"

\* C10 as amended: when the identity has no cluster (no shard), no
\* aggregated_per_cluster (aggregated_per_shard) counter exists, but the tag
\* sets built from the dimension keep the key, with the sentinel null-tag
\* value that get_as_list lists for it
C10_AbsentDimensionIsSentinel ==
    LET listed == get_as_list(settings.application_tags)
    IN  \A k \in AllKeys :
            /\ BuiltFromClusterAndShard(k) =>
                  /\ "cluster" \in DOMAIN k[3] /\ k[3]["cluster"] = listed[3][2]
                  /\ "shard" \in DOMAIN k[3] /\ k[3]["shard"] = listed[4][2]
            /\ ~ClusterConfigured =>
                  /\ Last(k[2]) # "aggregated_per_cluster"
                  /\ "cluster" \in DOMAIN k[3] => k[3]["cluster"] = NULL_TAG_VAL
            /\ ~ShardConfigured =>
                  /\ Last(k[2]) # "aggregated_per_shard"
                  /\ "shard" \in DOMAIN k[3] => k[3]["shard"] = NULL_TAG_VAL

\* a request was counted and timed under an identity without cluster and
\* shard
C10_Witness ==
    /\ ~ClusterConfigured /\ ~ShardConfigured
    /\ \E k \in DOMAIN histograms : k[3]["cluster"] = NULL_TAG_VAL
    /\ \E k \in DOMAIN counters : Last(k[2]) = "cumulative"
    /\ \E k \in DOMAIN gauges : k[2] = <<"total_requests", "inflight">>

\* the constructor was called and has ended
CtorEnded == app_tags.class # "NoneType"

\* application or service was not given, or given empty
RequiredTagMissing ==
    ctor_args.application \in {None, ""} \/ ctor_args.service \in {None, ""}

\* C11: the constructor of ApplicationTags raises its configuration error
\* iff application or service is missing or empty, whatever cluster, shard
\* and custom tags are; an object that was constructed reads back the five
\* values of the call, and no method of the class changes the object
C11_ApplicationTagsContract ==
    /\ [](CtorEnded => (app_tags.class = "AttributeError" <=> RequiredTagMissing))
    /\ [](app_tags.class = "ApplicationTags" =>
            /\ \A p \in Properties :
                  /\ app_tags[p] = ctor_args[p]
                  /\ app_tags_read.call = p => app_tags_read.value = ctor_args[p]
            /\ app_tags.custom_tags = ctor_args.custom_tags
            /\ app_tags_read.call = "custom_tags" =>
                  app_tags_read.custom_tags = ctor_args.custom_tags)
    /\ [][CtorEnded => app_tags' = app_tags]_vars

\* an object with an empty cluster and custom tags was constructed and
\* get_as_list was called on it
C11_Witness ==
    /\ app_tags.class = "ApplicationTags"
    /\ ctor_args.cluster = "" /\ ctor_args.custom_tags # NoCustomTags
    /\ app_tags_read.call = "get_as_list"

\* the characters the sanitization replaces
Replaced == {"-", "/", "{", "}"}

\* a name without the replaced characters and without a dot at either end
Sanitized(name) ==
    /\ \A i \in 1..Len(name) : name[i] \notin Replaced
    /\ name # <<>> => (Head(name) # "." /\ Last(name) # ".")

\* C12: the sanitization of get_entity_name is idempotent: applied to a
\* name it has already sanitized it yields the same name; a sanitized name
\* has none of - / { } and neither starts nor ends with a dot
C12_SanitizationIdempotent ==
    \A i \in 1..Len(entity_names) :
        /\ Sanitized(entity_names[i])
        /\ i > 1 => entity_names[i] = entity_names[i - 1]

\* a name of slashes around a hyphen was sanitized twice
C12_Witness ==
    /\ url_name = <<"/", "-", "/">>
    /\ Len(entity_names) = MaxApplications
    /\ entity_names[1] = <<"_">>

\* the requests that ended process_response in the way `ended` says, with a
\* start timestamp and the entity, method and status of request r
SameTimed(r, ended(_)) ==
    {q \in Requests :
        /\ Started(q) /\ ended(q)
        /\ EntityOf(q) = EntityOf(r)
        /\ req[q].method = req[r].method
        /\ req[q].status_code = req[r].status_code}

\* the samples the two full-scope histograms of request r hold are those of
\* the requests that ended with a start timestamp
TimedOncePerStarted(r, ended(_)) ==
    LET key == <<"response", EntityOf(r), req[r].method, str(req[r].status_code)>>
    IN  /\ NamedTotal(histograms, "histogram", Append(key, "latency"))
           = Cardinality(SameTimed(r, ended))
        /\ NamedTotal(histograms, "histogram", Append(key, "cpu_ns"))
           = Cardinality(SameTimed(r, ended))

\* C13: process_response adds exactly one sample to
\* response.<entity>.<method>.<status>.latency and exactly one to ....cpu_ns
\* iff process_view captured a start timestamp for the request; a COMPLETED
\* of a request that bypassed STARTED adds no sample
C13_HistogramsIffStarted ==
    mw.MIDDLEWARE_ENABLED =>
        \A r \in Requests : Completed(r) => TimedOncePerStarted(r, Completed)

\* the same over the calls of process_response that returned
HistogramsIffStartedWhenReturned ==
    mw.MIDDLEWARE_ENABLED =>
        \A r \in Requests : Returned(r) => TimedOncePerStarted(r, Returned)

\* the request has no resolvable route identity
NoRouteIdentity(r) == req[r].pc # "idle" /\ req[r].resolver_match = NoMatch

\* C14: a request with no resolvable route identity is instrumented under
\* the entity name UNKNOWN and does not fail: its COMPLETED returns, has
\* updated the gauge request.UNKNOWN.<method>.inflight and has incremented
\* response.UNKNOWN.<method>.<status>.cumulative and the completion counter
C14_UnknownInstrumented ==
    \A r \in Requests :
        (mw.MIDDLEWARE_ENABLED /\ NoRouteIdentity(r) /\ Completed(r)) =>
            /\ Returned(r)
            /\ Named(gauges, "gauge", <<"request", "UNKNOWN", req[r].method, "inflight">>)
               # {}
            /\ NamedTotal(counters, "counter",
                          <<"response", "UNKNOWN", req[r].method,
                            str(req[r].status_code), "cumulative">>) >= 1
            /\ NamedTotal(counters, "counter",
                          <<"response", "completed", "aggregated_per_source">>) >= 1

\* no metric is ever named after the entity UNKNOWN
UnknownNeverInstrumented ==
    \A k \in AllKeys : \A i \in 1..Len(k[2]) : k[2][i] # "UNKNOWN"

\* the counters of the error scope, of the completion scope and the
\* per-endpoint aggregated_per_* counters
Aggregated == {"aggregated_per_shard", "aggregated_per_service",
               "aggregated_per_cluster", "aggregated_per_application"}

ScopedCounter(k) ==
    \/ SubSeq(k[2], 1, 2) = <<"response", "errors">>
    \/ SubSeq(k[2], 1, 2) = <<"response", "completed">>
    \/ Last(k[2]) \in Aggregated

\* the tags other than source are tags of the full tag set of some route,
\* with the same values
ProjectsFullTagSet(tags) ==
    \E route \in Routes :
        LET full == complete_tags_map(route.module, route.func)
        IN  \A t \in DOMAIN tags \ {"source"} : t \in DOMAIN full /\ tags[t] = full[t]

CarriesSource(tags) ==
    "source" \in DOMAIN tags /\ tags["source"] = WAVEFRONT_PROVIDED_SOURCE

\* C15: every tag set of a counter of the error scope, of the completion
\* scope or of a per-endpoint aggregated_per_* counter is a projection of
\* the full tag set that drops only shard, cluster, module or func, and
\* carries the source tag with the server-provided sentinel value
C15_ScopesCarrySource ==
    \A k \in DOMAIN counters :
        ScopedCounter(k) =>
            /\ ProjectsFullTagSet(k[3])
            /\ "service" \in DOMAIN k[3]
            /\ CarriesSource(k[3])

\* the identity dimensions a scope keeps
IdentityKept(scope) ==
    CASE scope = "aggregated_per_shard" -> {"cluster", "service", "shard"}
      [] scope = "aggregated_per_service" -> {"cluster", "service"}
      [] scope = "aggregated_per_cluster" -> {"cluster"}
      [] scope = "aggregated_per_application" -> {}
      [] OTHER -> {"cluster", "service", "shard"}

\* C15 as amended: every such tag set is a projection of the full tag set
\* plus, at most, the source tag; the aggregated_per_shard, _service,
\* _cluster and _application counters carry the source tag with the
\* server-provided sentinel value and keep the identity dimensions of their
\* scope (per-cluster drops service and shard, per-application drops
\* cluster, service and shard); response.errors and the aggregated_per_source
\* counters carry no source tag
C15_AggregatedScopesCarrySource ==
    \A k \in DOMAIN counters :
        ScopedCounter(k) =>
            /\ ProjectsFullTagSet(k[3])
            /\ DOMAIN k[3] \cap {"cluster", "service", "shard"} = IdentityKept(Last(k[2]))
            /\ IF Last(k[2]) \in Aggregated
               THEN CarriesSource(k[3])
               ELSE "source" \notin DOMAIN k[3]

\* a request with an error status went through the three rollups under an
\* identity with shard and cluster
C15_Witness ==
    /\ ShardConfigured /\ ClusterConfigured
    /\ \E r \in Requests : Returned(r) /\ IsErrorStatus(req[r].status_code)
    /\ \A scope \in Aggregated \cup {"aggregated_per_source"} :
          /\ Named(counters, "counter", <<"response", "errors", scope>>)
             \cup Named(counters, "delta_counter", <<"response", "errors", scope>>) # {}
          /\ Named(counters, "counter", <<"response", "completed", scope>>)
             \cup Named(counters, "delta_counter", <<"response", "completed", scope>>)
             # {}

\* by how much a step changes the count held under a kind and name
CountStep(kind, name) == NamedTotal(counters', kind, name) - NamedTotal(counters, kind, name)

Completion(scope) == <<"response", "completed", scope>>

\* the requests whose process_response is past its completion rollup
PastCompletedRollup(r) == req[r].pc \in {"pr_histograms", "done"}

\* C16: the completion rollup of process_response increments
\* response.completed.aggregated_per_source on every call; it increments
\* response.completed.aggregated_per_shard and ..._per_service together iff
\* the shard is configured, response.completed.aggregated_per_cluster and
\* ..._per_application together iff the cluster is configured; with neither
\* configured it touches the per-source completion counter only
C16_CompletionPairsGated ==
    /\ [](mw.MIDDLEWARE_ENABLED =>
            LET n == Cardinality({r \in Requests : PastCompletedRollup(r)})
            IN  /\ NamedTotal(counters, "counter", Completion("aggregated_per_source")) = n
                /\ NamedTotal(counters, "counter", Completion("aggregated_per_service"))
                   = IF ShardConfigured THEN n ELSE 0
                /\ NamedTotal(counters, "counter",
                              Completion("aggregated_per_application"))
                   = IF ClusterConfigured THEN n ELSE 0)
    /\ [][\A r \in Requests :
            StepOf(r, "pr_completed_rollup", "pr_histograms") =>
                LET shard == IF ShardConfigured THEN 1 ELSE 0
                    cluster == IF ClusterConfigured THEN 1 ELSE 0
                IN  /\ CountStep("counter", Completion("aggregated_per_source")) = 1
                    /\ CountStep("delta_counter", Completion("aggregated_per_shard"))
                       = shard
                    /\ CountStep("counter", Completion("aggregated_per_service")) = shard
                    /\ CountStep("delta_counter", Completion("aggregated_per_cluster"))
                       = cluster
                    /\ CountStep("counter", Completion("aggregated_per_application"))
                       = cluster
                    /\ \A k \in DOMAIN counters' :
                          (k \notin DOMAIN counters \/ counters'[k] # counters[k]) =>
                              SubSeq(k[2], 1, 2) = <<"response", "completed">>]_vars

\* a request went through the completion rollup under an identity with a
\* cluster and without a shard
C16_Witness ==
    /\ ~ShardConfigured /\ ClusterConfigured
    /\ \E r \in Requests : Returned(r)
    /\ NamedTotal(counters, "counter", Completion("aggregated_per_application")) >= 1
    /\ NamedTotal(counters, "counter", Completion("aggregated_per_service")) = 0

\* a tracing collaborator is configured
TracingConfigured == settings.tracing.class = "DjangoTracing"

\* trace context is attached to a request only if a tracing collaborator
\* is configured and traces all requests
TraceContextOnlyWhenTraceAll ==
    \A r \in Requests :
        req[r].span => (TracingConfigured /\ settings.tracing.trace_all)

\* C17: the tracing collaborator is optional: with a valid reporter and
\* valid application tags the middleware is enabled and records gauges,
\* counters and histograms whether or not a tracing collaborator is
\* configured; trace context is attached at STARTED only if one is
\* configured and trace-all is enabled
C17_TracingOptional ==
    /\ (mw.constructed /\ ~RequiredConfigurationBad) => mw.MIDDLEWARE_ENABLED
    /\ \A r \in Requests :
          (~RequiredConfigurationBad /\ req[r].pc = "view") =>
              /\ Started(r)
              /\ Named(gauges, "gauge", <<"total_requests", "inflight">>) # {}
    /\ TraceContextOnlyWhenTraceAll

\* without a tracing collaborator the middleware is never enabled
DisabledWithoutTracing == ~TracingConfigured => ~mw.MIDDLEWARE_ENABLED

\* no thread is inside process_view or process_response
Quiescent ==
    \A r \in Requests :
        req[r].pc \in {"idle", "arrived", "view", "aborted", "done", "raised"}

Aborted(r) == req[r].pc = "aborted"

\* the value of total_requests.inflight, 0 before the gauge exists
TotalInflight ==
    IF total_inflight \in DOMAIN gauges THEN gauge_value(gauges, total_inflight) ELSE 0

\* the requests that contributed nothing but STARTED leave no counter and
\* no histogram
OnlyGaugesWithoutCompleted ==
    (\A r \in Requests : req[r].pc \in {"idle", "arrived", "view", "aborted"}) =>
        counters = <<>> /\ histograms = <<>>

\* C18: when the updates of the gauges do not interleave, after any sequence
\* of STARTED, COMPLETED and abort events total_requests.inflight equals the
\* number of STARTED events minus the number of COMPLETED events, so that
\* every aborted request leaves the gauge one higher; an aborted request
\* changes no counter and no histogram
C18_AbortLeavesGaugeUp ==
    (mw.MIDDLEWARE_ENABLED /\ ~interleaved /\ Quiescent) =>
        /\ TotalInflight
           = Cardinality({r \in Requests : Started(r)})
             - Cardinality({r \in Requests : Started(r) /\ Completed(r)})
        /\ OnlyGaugesWithoutCompleted

\* the same, counting the calls of process_response that returned
AbortLeavesGaugeUpWhenReturned ==
    (mw.MIDDLEWARE_ENABLED /\ ~interleaved /\ Quiescent) =>
        /\ TotalInflight
           = Cardinality({r \in Requests : Started(r)})
             - Cardinality({r \in Requests : Started(r) /\ Returned(r)})
        /\ OnlyGaugesWithoutCompleted

\* C19: no inflight gauge is negative in any reachable state; a
\* process_response for a request that bypassed process_view does not take
\* a gauge below the number of requests in flight
C19_GaugesNeverNegative == \A k \in DOMAIN gauges : gauges[k].val >= 0

\* the same as long as no update of a gauge fell between the read and the
\* write of another
GaugesNeverNegativeWithoutInterleaving ==
    ~interleaved => \A k \in DOMAIN gauges : gauges[k].val >= 0

\* process_response never gets as far as a gauge for a request that
\* bypassed process_view
BypassedNeverDecrements ==
    \A r \in Requests :
        (mw.MIDDLEWARE_ENABLED /\ ~Started(r)) =>
            req[r].pc \in {"idle", "arrived", "raised"}

\* one of the three settings is missing or of the wrong kind
ConfigurationBad == RequiredConfigurationBad \/ ~TracingConfigured

\* the reporter as it was handed to the middleware
ReporterUntouched == reporter = [prefix |-> "", registry |-> FALSE, started |-> FALSE]

\* C20: construction is all-or-nothing for the enabled flag: the middleware
\* is enabled only after the registry was created and attached to the
\* reporter, the reporter started, the heartbeat service created and the
\* global tracer initialized, in that order; if one of the three
\* configuration checks fails none of this has happened: the reporter is
\* never started, its prefix and registry are not modified
C20_ConstructionAllOrNothing ==
    /\ mw.MIDDLEWARE_ENABLED =>
          (reporter.registry /\ reporter.started /\ heartbeaterService /\ global_tracer)
    /\ global_tracer => heartbeaterService
    /\ heartbeaterService => reporter.started
    /\ reporter.started => (reporter.registry /\ reporter.prefix = REPORTER_PREFIX)
    /\ (mw.constructed /\ ~ConfigurationBad) => mw.MIDDLEWARE_ENABLED
    /\ ConfigurationBad =>
          /\ ~mw.MIDDLEWARE_ENABLED
          /\ ReporterUntouched
          /\ ~heartbeaterService /\ ~global_tracer

\* construction has started the reporter and created the heartbeat service
\* and has not yet initialized the global tracer
C20_Witness ==
    /\ reporter.started /\ heartbeaterService
    /\ ~global_tracer /\ ~mw.MIDDLEWARE_ENABLED

=============================================================================
